---- MODULE Spec2Model ----
(***************************************************************************)
(* Model of src/Solana.py: a Discord bot that periodically fetches the SOL *)
(* price from CoinGecko (get_price_data), and for every target guild       *)
(* (update_guild, run concurrently by updater_loop through asyncio.gather) *)
(* sets the bot's nickname and presence.                                   *)
(*                                                                         *)
(* Every action is one run of a coroutine between two suspension points    *)
(* (awaits); asyncio runs such a piece atomically.                         *)
(***************************************************************************)
EXTENDS Integers, Sequences, FiniteSets, TLC

VARIABLES
    GUILD_ID,     \* <<>> for None, <<n>> for the configured integer n
    guilds,       \* client.guilds: the guilds the bot belongs to
    closed,       \* client.is_closed()
    session,      \* _http_session: "None", "open" or "closed"
    update_task,  \* the task running updater_loop
    tasks         \* the update_guild tasks, by <<generation, guild>>

vars == <<GUILD_ID, guilds, closed, session, update_task, tasks>>

\* ---------------------------------------------------------------- bounds
NumGuilds == 2
Guilds == 1..NumGuilds
\* The update_guild tasks of the latest tick are generation "cur". Tasks of
\* the tick before that are still running when the next tick starts (their
\* gather raised before they finished) are generation "old".
Generations == {"cur", "old"}
TaskIds == Generations \X Guilds
\* The values of the environment variable GUILD_ID the model draws: 0, the
\* id of a guild of the bot, and the id of a guild the bot is not in.
ConfiguredIds == {0, 1, NumGuilds + 1}

\* A variant: a linear schedule.
backoffsLinear == <<0, 15, 30, 45>>

\* ------------------------------------------------------ get_price_data
\* backoffs = [0, 1.5, 3.0, 5.0], in tenths of a second
backoffs == <<0, 15, 30, 50>>

RetryStatuses == {429, 500, 502, 503, 504}

\* A response to one session.get: status 0 stands for no HTTP response at all
\* (aiohttp.ClientError or asyncio.TimeoutError raised by the request).
Resp(s, b, p, c) == [status |-> s, body |-> b, price |-> p, change |-> c]
Valid(p, c) == Resp(200, "valid", p, c)

\* Bodies of a 200 response that hold no sample:
\*   empty_list          []                       -> RuntimeError (line 62)
\*   not_list            {"error": ...} or null   -> RuntimeError (line 62)
\*   missing_field       [{}]                     -> KeyError (line 64/65)
\*   non_numeric         [{"current_price": null}]-> TypeError (line 64/65)
\*   bad_json            JSON content type, undecodable text
\*                                                -> json.JSONDecodeError (line 60)
\*   wrong_content_type  e.g. text/html           -> aiohttp.ContentTypeError,
\*                                                   a ClientError (line 60)
MalformedBodies ==
    {"empty_list", "not_list", "missing_field", "non_numeric", "bad_json",
     "wrong_content_type"}

\* The float made by line 64: the absolute value is int.milli (decimal digits
\* of the integer part, three decimals) when eps = 0, a little below it when
\* eps = -1 and a little above when eps = 1; neg is the sign bit.
Price(neg, int, milli, eps) == [neg |-> neg, int |-> int, milli |-> milli, eps |-> eps]
Price0 == Price(FALSE, <<0>>, 0, 0)
Price150 == Price(FALSE, <<1, 5, 0>>, 0, 0)

\* A variant: the else branch of lines 69-71 is missing and any status other
\* than 200 falls through to the next iteration.
ClassifyRetriesOther(r) ==
    IF r.status = 0 THEN "retry"
    ELSE IF r.status = 200 THEN
        IF r.body = "valid" THEN "return"
        ELSE IF r.body = "wrong_content_type" THEN "retry"
        ELSE "raise"
    ELSE "retry"

\* What one attempt does with its response: "return" the sample, "retry"
\* (fall through to the next iteration) or "raise" out of get_price_data.
Classify(r) ==
    IF r.status = 0 THEN "retry"                        \* except (ClientError, TimeoutError)
    ELSE IF r.status = 200 THEN
        IF r.body = "valid" THEN "return"
        ELSE IF r.body = "wrong_content_type" THEN "retry"  \* ContentTypeError is a ClientError
        ELSE "raise"                                    \* RuntimeError, KeyError, TypeError, ValueError
    ELSE IF r.status \in RetryStatuses THEN "retry"
    ELSE "raise"                                        \* RuntimeError(f"CoinGecko HTTP ...")

\* ---------------------------------------------------------- update_guild
\* A variant: line 104 with > in place of >=.
EmojiStrict(change) == IF change > 0 THEN "green" ELSE "red"

\* Line 104: "green" stands for the code point U+1F7E2, "red" for U+1F534.
Emoji(change) == IF change >= 0 THEN "green" ELSE "red"

\* f"{price:.2f}" (line 105): the float in fixed notation, rounded to two
\* decimals to the nearest, a tie to the even digit. The result is a sequence
\* of code points: "-" if the sign bit is set, the digits of the integer
\* part, ".", two digits.
DigitChar == <<"0", "1", "2", "3", "4", "5", "6", "7", "8", "9">>

RECURSIVE Incr(_)
Incr(ds) ==
    IF ds = <<>> THEN <<1>>
    ELSE IF ds[Len(ds)] = 9 THEN Incr(SubSeq(ds, 1, Len(ds) - 1)) \o <<0>>
    ELSE SubSeq(ds, 1, Len(ds) - 1) \o <<ds[Len(ds)] + 1>>

RoundsUp(price) ==
    LET r == price.milli % 10
        c == price.milli \div 10
    IN  \/ r > 5
        \/ r = 5 /\ price.eps = 1
        \/ r = 5 /\ price.eps = 0 /\ c % 2 = 1

Fixed2(price) ==
    LET c    == (price.milli \div 10) + (IF RoundsUp(price) THEN 1 ELSE 0)
        ds   == IF c = 100 THEN Incr(price.int) ELSE price.int
        cc   == c % 100
    IN  (IF price.neg THEN <<"-">> ELSE <<>>)
        \o [i \in 1..Len(ds) |-> DigitChar[ds[i] + 1]]
        \o <<".", DigitChar[(cc \div 10) + 1], DigitChar[(cc % 10) + 1]>>

\* Line 105 before the truncation of lines 106-107.
Formatted(price, change) == <<"$">> \o Fixed2(price) \o <<" ", Emoji(change)>>

\* A variant: lines 106-107 are missing.
NicknameUntruncated(price, change) == Formatted(price, change)

\* Lines 105-107; len() and the slice count code points.
Nickname(price, change) ==
    LET n == Formatted(price, change)
    IN  IF Len(n) > 32 THEN SubSeq(n, 1, 32) ELSE n

NoSample == <<>>

\* A task that does not exist (its guild was no target of the slot's tick).
IdleTask ==
    [pc |-> "idle", permRead |-> "unread", calls |-> 0,
     attempt |-> 0, reqs |-> 0, waited |-> <<>>, resps |-> <<>>,
     fetched |-> "none", sample |-> NoSample,
     nick |-> "none", emoji |-> "none", nickname |-> <<>>,
     status |-> "none", statusOf |-> NoSample, presence |-> "none"]

\* A task created by asyncio.gather and not yet run.
NewTask == [IdleTask EXCEPT !.pc = "start"]

Running(t) == tasks[t].pc \in {"start", "fetch", "edit", "presence", "degrade"}

\* The frame of get_price_data is gone once update_guild goes on.
DropFrame(task) ==
    [task EXCEPT !.attempt = 0, !.reqs = 0, !.waited = <<>>, !.resps = <<>>]

\* me.guild_permissions as one read finds it, and the test of line 88.
Permissions == [change_nickname : BOOLEAN, manage_nicknames : BOOLEAN]
MayChangeNick(p) == p.change_nickname \/ p.manage_nicknames
PermRead(p) == IF MayChangeNick(p) THEN "held" ELSE "lacking"

\* ------------------------------------------------------------------ Init
\* update_task: where the loop task is (pc), whether cancel() was called on
\* it and not yet delivered, and how it ended. Two fields record history:
\* stray counts loop tasks that update_task no longer refers to although they
\* have not finished, reready tells that on_ready ran while this task was
\* active.
NoTask == [pc |-> "None", cancel |-> FALSE, end |-> "none", stray |-> 0, reready |-> FALSE]

Init ==
    /\ GUILD_ID \in {<<>>} \cup {<<n>> : n \in ConfiguredIds}
    /\ guilds = Guilds
    /\ closed = FALSE
    /\ session = "None"
    /\ update_task = NoTask
    /\ tasks = [t \in TaskIds |-> IdleTask]

\* ------------------------------------------------------------- on_ready
\* Lines 152-160: create the session if missing or closed, start the loop
\* task if there is none or the last one is done.
LoopActive == update_task.pc \notin {"None", "done"}

\* A variant: line 159 is missing and every ready signal creates a task.
StartLoopAlways ==
    [pc |-> "top", cancel |-> FALSE, end |-> "none",
     stray |-> update_task.stray + (IF LoopActive THEN 1 ELSE 0),
     reready |-> LoopActive]

\* Lines 159-160.
StartLoop ==
    IF update_task.pc \in {"None", "done"}
    THEN [pc |-> "top", cancel |-> FALSE, end |-> "none",
          stray |-> update_task.stray, reready |-> FALSE]
    ELSE [update_task EXCEPT !.reready = TRUE]

OnReady ==
    /\ ~closed
    /\ session' = IF session \in {"None", "closed"} THEN "open" ELSE session
    /\ update_task' = StartLoop
    /\ UNCHANGED <<GUILD_ID, guilds, closed, tasks>>

\* --------------------------------------------------------- updater_loop
\* Lines 132-138: the guilds one tick updates.
Targets ==
    IF GUILD_ID # <<>> /\ GUILD_ID[1] # 0      \* if GUILD_ID:
    THEN IF GUILD_ID[1] \in guilds THEN {GUILD_ID[1]} ELSE {}
    ELSE guilds

\* Line 147 (or line 127 for a new task): the sleep is over and the loop
\* task is about to run line 129.
SleepDone ==
    /\ update_task.pc = "sleep"
    /\ ~update_task.cancel
    /\ update_task' = [update_task EXCEPT !.pc = "top"]
    /\ UNCHANGED <<GUILD_ID, guilds, closed, session, tasks>>

LoopResumes ==
    /\ update_task.pc = "top"
    /\ ~update_task.cancel

\* Line 129: while not client.is_closed() fails, the coroutine returns.
LoopExitClosed ==
    /\ LoopResumes
    /\ closed
    /\ update_task' = [update_task EXCEPT !.pc = "done", !.end = "closed"]
    /\ UNCHANGED <<GUILD_ID, guilds, closed, session, tasks>>

\* The model keeps one generation of tasks besides the latest tick's: a tick
\* starts when no task older than the latest tick's is running.
OldDone == \A g \in Guilds : ~Running(<<"old", g>>)

\* The tasks of a new tick: one per target; the finished tasks of the tick
\* before are forgotten, its running ones become generation "old".
TickTasks(targets) ==
    [t \in TaskIds |->
        IF t[1] = "cur"
        THEN IF t[2] \in targets THEN NewTask ELSE IdleTask
        ELSE IF Running(<<"cur", t[2]>>) THEN tasks[<<"cur", t[2]>>] ELSE IdleTask]

\* Lines 140-141 and 147: a tick with no target logs and sleeps.
TickNoTargets ==
    /\ LoopResumes
    /\ ~closed
    /\ OldDone
    /\ Targets = {}
    /\ tasks' = TickTasks({})
    /\ update_task' = [update_task EXCEPT !.pc = "sleep"]
    /\ UNCHANGED <<GUILD_ID, guilds, closed, session>>

\* Line 143: asyncio.gather(*(update_guild(g) for g in targets)).
TickGather ==
    /\ LoopResumes
    /\ ~closed
    /\ OldDone
    /\ Targets # {}
    /\ tasks' = TickTasks(Targets)
    /\ update_task' = [update_task EXCEPT !.pc = "gather"]
    /\ UNCHANGED <<GUILD_ID, guilds, closed, session>>

Children == {t \in TaskIds : t[1] = "cur" /\ tasks[t].pc # "idle"}

\* Line 143 then 147: every awaitable of the gather returned.
GatherReturn ==
    /\ update_task.pc = "gather"
    /\ ~update_task.cancel
    /\ \A t \in Children : tasks[t].pc = "returned"
    /\ update_task' = [update_task EXCEPT !.pc = "sleep"]
    /\ UNCHANGED <<GUILD_ID, guilds, closed, session, tasks>>

\* A variant: the tick has no except clause and the exception ends the task.
OnTickExceptionPropagate == [update_task EXCEPT !.pc = "done", !.end = "exception"]

\* What the loop does with an exception out of the gather: lines 144-145
\* catch it (except Exception) and go on to the sleep.
OnTickException == [update_task EXCEPT !.pc = "sleep"]

\* gather (return_exceptions=False) raises the first exception of a child at
\* once; the other children are not cancelled and keep running.
GatherRaise ==
    /\ update_task.pc = "gather"
    /\ ~update_task.cancel
    /\ \E t \in Children : tasks[t].pc = "raised"
    /\ update_task' = OnTickException
    /\ UNCHANGED <<GUILD_ID, guilds, closed, session, tasks>>

\* ------------------------------------------------------------ _shutdown
\* Lines 176-181. contextlib is not imported (lines 1-7): after
\* update_task.cancel() line 178 raises NameError and line 180 is not reached.
Shutdown ==
    /\ IF LoopActive
       THEN /\ update_task' = [update_task EXCEPT !.cancel = TRUE]
            /\ UNCHANGED session
       ELSE /\ session' = IF session = "open" THEN "closed" ELSE session
            /\ UNCHANGED update_task
    /\ UNCHANGED <<GUILD_ID, guilds, closed, tasks>>

\* CancelledError is thrown into the loop task where it is suspended. It is
\* no Exception, so line 144 does not catch it. A cancelled gather cancels
\* its children; tasks of an earlier gather are not its children.
CancelDeliver ==
    /\ update_task.cancel
    /\ update_task.pc \in {"top", "gather", "sleep"}
    /\ tasks' = [t \in TaskIds |->
                    IF update_task.pc = "gather" /\ t[1] = "cur" /\ Running(t)
                    THEN [DropFrame(tasks[t]) EXCEPT !.pc = "cancelled"]
                    ELSE tasks[t]]
    /\ update_task' = [update_task EXCEPT !.pc = "done", !.cancel = FALSE, !.end = "cancelled"]
    /\ UNCHANGED <<GUILD_ID, guilds, closed, session>>

\* ---------------------------------------------------------- environment
\* The platform closes the client (client.close()).
ClientClose ==
    /\ ~closed
    /\ closed' = TRUE
    /\ UNCHANGED <<GUILD_ID, guilds, session, update_task, tasks>>


\* ---------------------------------------------------------- update_guild
SetTask(t, task) ==
    /\ tasks' = [tasks EXCEPT ![t] = task]
    /\ UNCHANGED <<GUILD_ID, guilds, closed, session, update_task>>

\* A variant: the test of line 88 is missing.
AfterMemberNoCheck(t, p) ==
    IF session = "None"
    THEN [tasks[t] EXCEPT !.permRead = PermRead(p), !.fetched = "error", !.pc = "degrade"]
    ELSE [tasks[t] EXCEPT !.permRead = PermRead(p), !.calls = @ + 1, !.pc = "fetch"]

\* Lines 87-90 and 92-94, reached with the bot's member and its permissions
\* p; without them return, with them enter get_price_data (or fail
\* the assertion of line 93, which line 95 catches).
AfterMember(t, p) ==
    IF ~MayChangeNick(p)
    THEN [tasks[t] EXCEPT !.permRead = PermRead(p), !.pc = "returned"]
    ELSE IF session = "None"
    THEN [tasks[t] EXCEPT !.permRead = PermRead(p), !.fetched = "error", !.pc = "degrade"]
    ELSE [tasks[t] EXCEPT !.permRead = PermRead(p), !.calls = @ + 1, !.pc = "fetch"]

\* What the call that resolves the member can do: "ok" (guild.me is cached,
\* or fetch_member answers), "http_error" (fetch_member raises
\* discord.HTTPException) or "other_error" (it raises anything else, such as
\* aiohttp.ClientConnectorError or asyncio.TimeoutError).
MemberOutcomes == {"ok", "http_error", "other_error"}

\* Lines 81-94.
ResolveMember(t, outcome, p) ==
    /\ tasks[t].pc = "start"
    /\ SetTask(t, CASE outcome = "ok" -> AfterMember(t, p)
                    [] outcome = "http_error" -> [tasks[t] EXCEPT !.pc = "returned"]
                    [] OTHER -> [tasks[t] EXCEPT !.pc = "raised"])

\* get_price_data is left: with the sample (line 66) or with an exception,
\* which line 95 of update_guild catches.
FetchReturns(task, r) ==
    [task EXCEPT !.fetched = "ok", !.sample = <<r.price, r.change>>, !.pc = "edit"]

\* A variant: update_guild calls get_price_data a second time when the first
\* call raised.
FetchRaisesAndRefetches(task) ==
    IF task.calls = 1
    THEN [DropFrame(task) EXCEPT !.calls = 2, !.pc = "fetch"]
    ELSE [task EXCEPT !.fetched = "error", !.pc = "degrade"]

FetchRaises(task) == [task EXCEPT !.fetched = "error", !.pc = "degrade"]

\* A variant: the retry loop runs once more than the schedule has delays.
AttemptNoLimit(t, r) ==
    /\ tasks[t].pc = "fetch"
    /\ tasks[t].attempt < Len(backoffs) + 1
    /\ LET sent == [tasks[t] EXCEPT
                       !.waited = Append(@, backoffs[IF tasks[t].attempt < Len(backoffs)
                                                    THEN tasks[t].attempt + 1
                                                    ELSE Len(backoffs)]),
                       !.reqs = @ + 1,
                       !.resps = Append(@, r),
                       !.attempt = @ + 1]
       IN  SetTask(t,
             IF session # "open" THEN FetchRaises(tasks[t])
             ELSE CASE Classify(r) = "return" -> FetchReturns(sent, r)
                    [] Classify(r) = "raise" -> FetchRaises(sent)
                    [] OTHER -> IF sent.attempt = Len(backoffs) + 1
                                THEN FetchRaises(sent)
                                ELSE sent)

\* Lines 53-75: one iteration of the retry loop, with the response r of its
\* request: the delay of the schedule (line 54 skips the sleep for 0), the
\* request, and what Classify makes of the response. A session that is
\* closed raises RuntimeError in session.get before any request is made.
Attempt(t, r) ==
    /\ tasks[t].pc = "fetch"
    /\ tasks[t].attempt < Len(backoffs)
    /\ LET sent == [tasks[t] EXCEPT
                       !.waited = Append(@, backoffs[tasks[t].attempt + 1]),
                       !.reqs = @ + 1,
                       !.resps = Append(@, r),
                       !.attempt = @ + 1]
       IN  SetTask(t,
             IF session # "open" THEN FetchRaises(tasks[t])
             ELSE CASE Classify(r) = "return" -> FetchReturns(sent, r)
                    [] Classify(r) = "raise" -> FetchRaises(sent)
                    [] OTHER -> IF sent.attempt = Len(backoffs)
                                THEN FetchRaises(sent)     \* line 75
                                ELSE sent)

\* A variant: a failure of the degraded presence is not swallowed.
DegradeRaises(t, ok) ==
    /\ tasks[t].pc = "degrade"
    /\ SetTask(t, [DropFrame(tasks[t]) EXCEPT
                      !.status = "price: API error",
                      !.presence = IF ok THEN "ok" ELSE "failed",
                      !.pc = IF ok THEN "returned" ELSE "raised"])

\* Lines 96-102: the degraded presence; line 100 swallows its failure.
Degrade(t, ok) ==
    /\ tasks[t].pc = "degrade"
    /\ SetTask(t, [DropFrame(tasks[t]) EXCEPT
                      !.status = "price: API error",
                      !.presence = IF ok THEN "ok" ELSE "failed",
                      !.pc = "returned"])

\* What me.edit can do: "ok", "forbidden" (discord.Forbidden), "http_error"
\* (another discord.HTTPException) or "other_error" (any other exception).
EditOutcomes == {"ok", "forbidden", "http_error", "other_error"}

\* A variant: the except branches of lines 111-114 return.
EditNickReturnsOnFailure(t, outcome) ==
    /\ tasks[t].pc = "edit"
    /\ SetTask(t, [DropFrame(tasks[t]) EXCEPT
                      !.nick = outcome,
                      !.emoji = Emoji(tasks[t].sample[2]),
                      !.nickname = Nickname(tasks[t].sample[1], tasks[t].sample[2]),
                      !.pc = CASE outcome = "other_error" -> "raised"
                               [] outcome = "ok" -> "presence"
                               [] OTHER -> "returned"])

\* Lines 104-114: only discord.Forbidden and discord.HTTPException are caught.
EditNick(t, outcome) ==
    /\ tasks[t].pc = "edit"
    /\ SetTask(t, [DropFrame(tasks[t]) EXCEPT
                      !.nick = outcome,
                      !.emoji = Emoji(tasks[t].sample[2]),
                      !.nickname = Nickname(tasks[t].sample[1], tasks[t].sample[2]),
                      !.pc = IF outcome = "other_error" THEN "raised" ELSE "presence"])

\* A variant: the status text is built from the sample fetched for the first
\* guild of the tick, not from the update's own.
PresenceOfFirstGuild(t, ok) ==
    /\ tasks[t].pc = "presence"
    /\ SetTask(t, [tasks[t] EXCEPT
                      !.status = "24h change",
                      !.statusOf = tasks[<<t[1], 1>>].sample,
                      !.presence = IF ok THEN "ok" ELSE "failed",
                      !.pc = "returned"])

\* Lines 117-122: line 119 swallows a failure of change_presence.
Presence(t, ok) ==
    /\ tasks[t].pc = "presence"
    /\ SetTask(t, [tasks[t] EXCEPT
                      !.status = "24h change",
                      !.statusOf = tasks[t].sample,
                      !.presence = IF ok THEN "ok" ELSE "failed",
                      !.pc = "returned"])

\* ------------------------------------------------------ specifications
\* The samples and responses the loop's specification draws from.
Samples == {<<Price150, 1>>}
LoopResponses ==
    {Valid(sm[1], sm[2]) : sm \in Samples} \cup {Resp(503, "text", Price0, 0), Resp(404, "text", Price0, 0)}

\* One step of update_guild, the responses drawn from R.
UpdateGuildStepOn(t, R) ==
    \/ \E o \in MemberOutcomes, p \in Permissions : ResolveMember(t, o, p)
    \/ \E r \in R : Attempt(t, r)
    \/ \E ok \in BOOLEAN : Degrade(t, ok)
    \/ \E o \in EditOutcomes : EditNick(t, o)
    \/ \E ok \in BOOLEAN : Presence(t, ok)

UpdateGuildStep(t) == UpdateGuildStepOn(t, LoopResponses)

LoopStep ==
    \/ SleepDone
    \/ LoopExitClosed
    \/ TickNoTargets
    \/ TickGather
    \/ GatherReturn
    \/ GatherRaise
    \/ CancelDeliver

Next ==
    \/ OnReady
    \/ Shutdown
    \/ ClientClose
    \/ LoopStep
    \/ \E t \in TaskIds : UpdateGuildStep(t)

Spec == Init /\ [][Next]_vars

\* One call of get_price_data by itself, under every kind of response: the
\* state of update_guild for guild 1 on entering get_price_data (line 94).
Prices == {Price0, Price150}
Changes == {-1, 0, 1}
OtherStatuses == {400, 404}
AllResponses ==
    {Valid(p, c) : p \in Prices, c \in Changes}
    \cup {Resp(200, b, Price0, 0) : b \in MalformedBodies}
    \cup {Resp(st, "text", Price0, 0) : st \in RetryStatuses \cup OtherStatuses}
    \cup {Resp(0, e, Price0, 0) : e \in {"client_error", "timeout"}}

FetchTask == <<"cur", 1>>

InitFetch ==
    /\ GUILD_ID = <<1>>
    /\ guilds = Guilds
    /\ closed = FALSE
    /\ session = "open"
    /\ update_task = [NoTask EXCEPT !.pc = "gather"]
    /\ tasks = [t \in TaskIds |->
                  IF t = FetchTask
                  THEN [NewTask EXCEPT !.permRead = "held", !.calls = 1, !.pc = "fetch"]
                  ELSE IdleTask]

NextFetch == \E r \in AllResponses : Attempt(FetchTask, r)

SpecFetch == InitFetch /\ [][NextFetch]_vars

\* The loop with neither shutdown nor close of the client, under the
\* scheduling of asyncio: a task that can run does run, and every await of
\* update_guild ends (the request timeout of line 57, aiohttp's default
\* timeout for the calls of the Discord client).
LoopStepLive ==
    \/ SleepDone
    \/ TickNoTargets
    \/ TickGather
    \/ GatherReturn
    \/ GatherRaise

NextLive ==
    \/ OnReady
    \/ LoopStepLive
    \/ \E t \in TaskIds : UpdateGuildStep(t)

Fairness ==
    /\ WF_vars(LoopStepLive)
    /\ \A t \in TaskIds : WF_vars(UpdateGuildStep(t))

SpecLive == Init /\ [][NextLive]_vars /\ Fairness

\* The loop when the price moves between two fetches: every fetch may return
\* either of two samples, or fail. No id is configured, or that of a guild
\* the bot is not in.
TwoSamples == {<<Price150, 1>>, <<Price(FALSE, <<1, 4, 9>>, 500, 0), -1>>}
TwoResponses ==
    {Valid(sm[1], sm[2]) : sm \in TwoSamples} \cup {Resp(404, "text", Price0, 0)}

InitTwo == Init /\ GUILD_ID \in {<<>>, <<NumGuilds + 1>>}

NextTwo ==
    \/ OnReady
    \/ LoopStepLive
    \/ \E t \in TaskIds : UpdateGuildStepOn(t, TwoResponses)

SpecTwo == InitTwo /\ [][NextTwo]_vars

\* Lines 104-120 applied to one fetched sample: the prices have 1 to MaxDigits
\* integer digits, so that nicknames shorter than, equal to and longer than 32
\* code points are built. A float with more than 15 integer digits has no
\* fraction to round.
MaxDigits == 28
Millis == {0, 4, 5, 125, 567, 995, 999}
NickPrices ==
    {Price(sg, [i \in 1..n |-> d], m, e) :
        sg \in BOOLEAN, n \in 1..15, d \in {1, 9}, m \in Millis, e \in {-1, 0, 1}}
    \cup {Price(sg, [i \in 1..n |-> d], 0, 0) :
        sg \in BOOLEAN, n \in 16..MaxDigits, d \in {1, 9}}
    \cup {Price(FALSE, <<0>>, 4, 1), Price(FALSE, <<1, 2, 3, 4>>, 567, 0)}

InitNick ==
    /\ GUILD_ID = <<1>>
    /\ guilds = Guilds
    /\ closed = FALSE
    /\ session = "open"
    /\ update_task = [NoTask EXCEPT !.pc = "gather"]
    /\ \E p \in NickPrices, c \in Changes :
         tasks = [t \in TaskIds |->
                    IF t = FetchTask
                    THEN [NewTask EXCEPT !.permRead = "held", !.calls = 1,
                                         !.fetched = "ok", !.sample = <<p, c>>,
                                         !.pc = "edit"]
                    ELSE IdleTask]

NextNick ==
    \/ \E o \in EditOutcomes : EditNick(FetchTask, o)
    \/ \E ok \in BOOLEAN : Presence(FetchTask, ok)

SpecNick == InitNick /\ [][NextNick]_vars

\* =====================================================================
\* Properties
\* =====================================================================
Cur(g) == tasks[<<"cur", g>>]
Last(seq) == seq[Len(seq)]

\* The claims' own terms for a response.
TransientResponse(r) == r.status \in {429, 500, 502, 503, 504} \/ r.status = 0
ValidResponse(r) == r.status = 200 /\ r.body = "valid"
MalformedResponse(r) == r.status = 200 /\ r.body \in MalformedBodies
Schedule == <<0, 15, 30, 50>>

\* C1: when the first k-1 responses of a call (1 <= k <= 4) are transient and
\* the k-th is a valid 200, get_price_data has returned the k-th response's
\* (price, change), has issued exactly k requests and has waited exactly the
\* first k delays of 0, 1.5, 3, 5 s; being returned, it issues no more.
C1_RetryThenSuccess ==
    \A t \in TaskIds :
        LET rs == tasks[t].resps
            k == Len(rs)
        IN  (/\ k >= 1
             /\ ValidResponse(rs[k])
             /\ \A i \in 1..(k - 1) : TransientResponse(rs[i]))
            => /\ k <= 4
               /\ tasks[t].pc = "edit"
               /\ tasks[t].fetched = "ok"
               /\ tasks[t].sample = <<rs[k].price, rs[k].change>>
               /\ tasks[t].reqs = k
               /\ tasks[t].waited = SubSeq(Schedule, 1, k)

\* The sequence 429, 429, 200-valid: a success on the third attempt.
C1_Witness ==
    /\ Len(tasks[FetchTask].resps) = 3
    /\ tasks[FetchTask].resps[1].status = 429
    /\ tasks[FetchTask].resps[2].status = 429
    /\ ValidResponse(tasks[FetchTask].resps[3])
    /\ tasks[FetchTask].sample = <<Price150, -1>>
    /\ tasks[FetchTask].waited = <<0, 15, 30>>

\* C2: no call issues more than 4 requests; a call all of whose responses are
\* transient is still retrying after fewer than 4 and has failed with a fetch
\* error after exactly 4.
C2_ExhaustedRetries ==
    \A t \in TaskIds :
        LET rs == tasks[t].resps
            k == Len(rs)
        IN  /\ tasks[t].reqs <= 4
            /\ (k >= 1 /\ \A i \in 1..k : TransientResponse(rs[i]))
               => /\ tasks[t].reqs = k
                  /\ IF k = 4
                     THEN tasks[t].pc = "degrade" /\ tasks[t].fetched = "error"
                     ELSE tasks[t].pc = "fetch" /\ tasks[t].fetched = "none"

\* Four times 503, or four network errors: the call has failed.
C2_Witness ==
    /\ Len(tasks[FetchTask].resps) = 4
    /\ \A i \in 1..4 : tasks[FetchTask].resps[i].status \in {503, 0}
    /\ tasks[FetchTask].resps[1].status = 503
    /\ tasks[FetchTask].resps[4].status = 0
    /\ tasks[FetchTask].fetched = "error"
    /\ tasks[FetchTask].reqs = 4

\* C3: a 200 response with an empty or malformed body fails the call on that
\* attempt: no further request follows it.
C3_MalformedIsFatal ==
    \A t \in TaskIds :
        (tasks[t].resps # <<>> /\ MalformedResponse(Last(tasks[t].resps)))
        => tasks[t].pc = "degrade" /\ tasks[t].fetched = "error"

\* C4: a nickname change is issued (or about to be) by an update_guild task
\* only if that same task, created by the current tick with no knowledge of
\* permissions, read the permissions and found one of the two held.
C4_NickOnlyWithPermissionRead ==
    \A t \in TaskIds :
        /\ tasks[t].pc = "start" => tasks[t].permRead = "unread"
        /\ (tasks[t].nick # "none" \/ tasks[t].pc = "edit") => tasks[t].permRead = "held"

\* A guild whose update of the tick before (still running) read the
\* permission as held and changed the nickname, and whose update of the
\* latest tick read it as lacking and changed nothing.
C4_Witness ==
    \E g \in Guilds :
        /\ tasks[<<"old", g>>].permRead = "held"
        /\ tasks[<<"old", g>>].nick = "ok"
        /\ Cur(g).permRead = "lacking"
        /\ Cur(g).nick = "none"
        /\ Cur(g).pc = "returned"

\* C5: in a tick with a guild lacking the permission and a guild holding it
\* whose fetch succeeded, once the latter's update is over the nickname
\* change and the status update were attempted for it, none was attempted
\* for the former, and the former's update returned without raising.
C5_MixedPermissions ==
    \A a, b \in Guilds :
        (/\ Cur(a).permRead = "lacking"
         /\ Cur(b).permRead = "held"
         /\ Cur(b).fetched = "ok"
         /\ Cur(b).pc \in {"returned", "raised"})
        => /\ Cur(b).nick # "none"
           /\ Cur(b).status = "24h change"
           /\ Cur(a).nick = "none"
           /\ Cur(a).pc = "returned"

\* C6: after a nickname change that failed with discord.Forbidden or another
\* discord.HTTPException, the update goes on to the presence update with the
\* "24h change" text: it has not returned or raised without attempting it.
C6_StatusAfterFailedNick ==
    \A t \in TaskIds :
        tasks[t].nick \in {"forbidden", "http_error"}
        => \/ tasks[t].pc = "presence"
           \/ tasks[t].pc = "cancelled"
           \/ tasks[t].pc = "returned" /\ tasks[t].status = "24h change"

C6_Witness ==
    \E t \in TaskIds :
        /\ tasks[t].nick = "forbidden"
        /\ tasks[t].pc = "returned"
        /\ tasks[t].status = "24h change"

\* C7: update_guild never raises to its caller, whatever step fails.
C7_UpdateGuildNeverRaises == \A t \in TaskIds : tasks[t].pc # "raised"

RECURSIVE SumCalls(_)
SumCalls(S) ==
    IF S = {} THEN 0
    ELSE LET g == CHOOSE x \in S : TRUE IN Cur(g).calls + SumCalls(S \ {g})

C10_LoopGoesOn ==
    /\ [](update_task.pc # "done")
    /\ (update_task.pc = "gather") ~> (update_task.pc = "sleep")
    /\ (update_task.pc = "sleep") ~> (update_task.pc = "top")
    /\ (update_task.pc = "top") ~> (update_task.pc \in {"gather", "sleep"})

\* The loop sleeps after a tick whose gather raised.
C10_Witness ==
    /\ update_task.pc = "sleep"
    /\ \E g \in Guilds : Cur(g).pc = "raised"


\* C11: at most one loop task is active at any time, and a ready signal that
\* finds a loop task active leaves that task as it is and starts none.
ActiveLoops == (IF LoopActive THEN 1 ELSE 0) + update_task.stray

C11_OneLoopTask == ActiveLoops <= 1

\* on_ready ran again while the loop task was in its gather.
C11_Witness ==
    /\ update_task.reready
    /\ update_task.pc = "gather"
    /\ ActiveLoops = 1

\* C12: ticks never overlap. The loop leaves its gather for the interval
\* sleep, and comes back to begin the next tick, only when every update_guild
\* the tick started has returned or raised, and no update_guild of an earlier
\* tick is still running.
C12_TicksNeverOverlap ==
    /\ update_task.pc \in {"sleep", "top"} => \A t \in Children : ~Running(t)
    /\ \A g \in Guilds : ~Running(<<"old", g>>)

\* C13: a shutdown issued while the loop task is active cancels the task,
\* awaits it to its end and then closes the session, and every run of the
\* shutdown path ends with the session closed. _shutdown has no suspension
\* point before line 178 is evaluated, so where its run ends in the step that
\* began it, the loop task must have finished and the session must be closed
\* at the end of that step.
C13_ShutdownClosesSession ==
    [][Shutdown =>
         /\ session' # "open"
         /\ LoopActive => update_task'.pc = "done"]_vars

\* C14: every nickname handed to the platform has at most 32 code points and
\* begins with "$"; when "$" + the price to two decimals + " " + the emoji is
\* longer than 32, the nickname is exactly its first 32 code points.
Marker(change) == IF change >= 0 THEN "green" ELSE "red"
Whole(sample) == <<"$">> \o Fixed2(sample[1]) \o <<" ", Marker(sample[2])>>

C14_NicknameLength ==
    \A t \in TaskIds :
        tasks[t].nick # "none" =>
            /\ Len(tasks[t].nickname) <= 32
            /\ tasks[t].nickname[1] = "$"
            /\ Len(Whole(tasks[t].sample)) > 32 =>
                   tasks[t].nickname = SubSeq(Whole(tasks[t].sample), 1, 32)

\* A price of 27 integer digits: 33 code points before the cut, 32 applied.
C14_Witness ==
    /\ tasks[FetchTask].nick = "ok"
    /\ Len(Whole(tasks[FetchTask].sample)) = 33
    /\ Len(tasks[FetchTask].nickname) = 32

\* C15: the emoji of the nickname is the up marker when the sample's 24h
\* change is >= 0, exactly 0 included, and the down marker when it is < 0.
C15_EmojiBySign ==
    \A t \in TaskIds :
        tasks[t].nick # "none" =>
            /\ tasks[t].emoji = Marker(tasks[t].sample[2])
            /\ Len(Whole(tasks[t].sample)) <= 32 =>
                   Last(tasks[t].nickname) = Marker(tasks[t].sample[2])

\* A change of exactly 0 gave the up marker.
C15_Witness ==
    /\ tasks[FetchTask].nick = "ok"
    /\ tasks[FetchTask].sample[2] = 0
    /\ Last(tasks[FetchTask].nickname) = "green"

\* C16: a response whose status is none of 200, 429, 500, 502, 503, 504 makes
\* the call fail at once: it is the last response of the call, the call has
\* failed with a fetch error and has issued no request after it.
OtherStatus(r) == r.status \notin {0, 200, 429, 500, 502, 503, 504}

C16_OtherStatusFailsAtOnce ==
    \A t \in TaskIds :
        \A i \in 1..Len(tasks[t].resps) :
            OtherStatus(tasks[t].resps[i]) =>
                /\ i = Len(tasks[t].resps)
                /\ tasks[t].reqs = i
                /\ tasks[t].pc = "degrade"
                /\ tasks[t].fetched = "error"

\* A 503 then a 404: the call failed on its second request.
C16_Witness ==
    /\ Len(tasks[FetchTask].resps) = 2
    /\ tasks[FetchTask].resps[1].status = 503
    /\ tasks[FetchTask].resps[2].status = 404
    /\ tasks[FetchTask].reqs = 2
    /\ tasks[FetchTask].pc = "degrade"

\* C17: when a community id is configured, 0 included, the updates a tick
\* starts are for that community only (for none when the bot is not in it);
\* all joined communities are targeted only when no id is configured.
C17_ConfiguredTarget ==
    GUILD_ID # <<>> =>
        \A g \in Guilds : Cur(g).pc # "idle" => g = GUILD_ID[1]

Stopped == update_task.pc = "done" /\ update_task.end = "cancelled"

C19_StoppedIsTerminal == [][Stopped => Stopped']_vars

\* C20: whenever an update_guild that read the permission as held goes on to
\* the price fetch, the session exists and is not closed, and the update
\* enters get_price_data (the assertion of line 93 does not fail).
C20_FetchOnOpenSession ==
    [][\A t \in TaskIds :
          tasks[t].pc = "start" /\ tasks'[t].permRead = "held"
              => session = "open" /\ tasks'[t].pc = "fetch"]_vars
====
